---- MODULE Spec2Model ----
(***************************************************************************)
(* Echo State Network of src/reservoir.ipynb: EchoStateNetwork (weights,   *)
(* spectral-radius rescaling, the tanh recurrence, the Ridge readout) and  *)
(* the trial runner train_esn.                                             *)
(*                                                                         *)
(* Numbers are fixed point.  Data values, reservoir states, predictions    *)
(* are integers in units of 1/Scale; weights are integers in units of      *)
(* 1/WScale; a pre-activation Win*u + W*state is in units of               *)
(* 1/(Scale*WScale).  Every stored value is rounded to its grid, as a      *)
(* float32 is rounded to its own: tanh therefore returns exactly +-1 for a *)
(* large enough argument.  The three IEEE specials (inf, -inf, nan) are    *)
(* kept, with their arithmetic, because a division by zero produces them.  *)
(***************************************************************************)
EXTENDS Integers, Sequences, FiniteSets

(* ---------------------------------------------------------------- bounds *)
MaxSeed == 3
MaxCalls == 2
MaxTrials == 3

(* ------------------------------------------------------- configuration   *)
reservoir_size == 2
spectral_radius == 90
alpha == 1
Scale == 10
WScale == 100
RhoPrec == 20

(* ------------------------------------------------------------ arithmetic *)
PosInf == 1000 * 1000
NegInf == 0 - PosInf
NaN == PosInf + 1

IsFinite(x) == x # NaN /\ x # PosInf /\ x # NegInf

Abs(x) == IF x < 0 THEN 0 - x ELSE x

Sign(x) == IF x < 0 THEN 0 - 1 ELSE IF x > 0 THEN 1 ELSE 0

\* the element of a one-element set; Only({F(v) : v \in {e}}) is F(e) with e
\* evaluated once
Only(S) == CHOOSE v \in S : TRUE

\* n / d rounded to the nearest integer, halves away from zero (d > 0)
RoundDiv(n, d) == Only({Sign(v) * ((2 * Abs(v) + d) \div (2 * d)) : v \in {n}})

\* IEEE product of a real x by a factor f that is finite, or +inf
FMulInf(x) == IF x = 0 THEN NaN ELSE IF x > 0 THEN PosInf ELSE NegInf

\* a + b, b * c with the IEEE specials; finite operands are plain integers
FAdd(a, b) ==
    IF a = NaN \/ b = NaN THEN NaN
    ELSE IF a = PosInf THEN (IF b = NegInf THEN NaN ELSE PosInf)
    ELSE IF a = NegInf THEN (IF b = PosInf THEN NaN ELSE NegInf)
    ELSE IF ~IsFinite(b) THEN b
    ELSE a + b

FMul(a, b) ==
    IF a = NaN \/ b = NaN THEN NaN
    ELSE IF ~IsFinite(a) \/ ~IsFinite(b)
         THEN (IF a = 0 \/ b = 0 THEN NaN
               ELSE IF (a > 0) = (b > 0) THEN PosInf ELSE NegInf)
    ELSE a * b

RECURSIVE SqrtSearch(_, _, _)
SqrtSearch(n, lo, hi) ==
    IF lo >= hi THEN lo
    ELSE LET mid == (lo + hi + 1) \div 2
         IN IF mid * mid <= n THEN SqrtSearch(n, mid, hi)
            ELSE SqrtSearch(n, lo, mid - 1)

\* floor of the square root of n >= 0
ISqrt(n) == SqrtSearch(n, 0, 46340)

(* ------------------------------------------------- the random generator  *)
\* torch's global generator: a deterministic stream per seed, read at an
\* offset.  Level is the stream, quantised to four values of [0, 1).
Level(seed, k) == (2 + (seed + 1) * (k + 1)) % 4

\* torch.rand: a value of [0, 1), in units of 1/WScale
rand(seed, k) == Level(seed, k) * (WScale \div 4)

\* torch.rand(...) * 2 - 1
uniform(seed, k) == rand(seed, k) * 2 - WScale

\* torch.rand((rows, cols)) * 2 - 1 read from generator g, row-major
RandMatrix(g, rows, cols) ==
    [i \in 1..rows |->
        [j \in 1..cols |-> uniform(g.seed, g.offset + (i - 1) * cols + (j - 1))]]

Advance(g, n) == [g EXCEPT !.offset = @ + n]

\* the generator torch.manual_seed(s) leaves
SeededGenerator(s) == [seed |-> s, offset |-> 0]

manual_seed_keep(g, s) == g

manual_seed(g, s) == SeededGenerator(s)

(* ------------------------------------------------------- ReservoirWeights *)
\* max(abs(eigenvalues)) of the 2x2 matrix w, in units of 1/(WScale*RhoPrec)
SpectralRadius(w) ==
    LET tr == w[1][1] + w[2][2]
        det == w[1][1] * w[2][2] - w[1][2] * w[2][1]
        disc == tr * tr - 4 * det
    IN IF disc < 0
       THEN ISqrt(det * RhoPrec * RhoPrec)
       ELSE (Abs(tr) * RhoPrec + ISqrt(disc * RhoPrec * RhoPrec)) \div 2

\* one entry of W * (spectral_radius / rhoW)
ScaleEntry(x, rhoW) ==
    IF rhoW = 0 THEN FMulInf(x)
    ELSE RoundDiv(x * spectral_radius * RhoPrec, rhoW)

adjust_spectral_radius(w) ==
    LET rhoW == SpectralRadius(w)
    IN [i \in 1..reservoir_size |->
          [j \in 1..reservoir_size |-> ScaleEntry(w[i][j], rhoW)]]

\* initialize_weights on generator g: the new Win, W and generator, and the
\* spectral radius of the matrix as drawn
initialize_weights(g, idim) ==
    LET g1 == Advance(g, reservoir_size * idim)
        drawn == RandMatrix(g1, reservoir_size, reservoir_size)
    IN [Win |-> RandMatrix(g, reservoir_size, idim),
        W |-> adjust_spectral_radius(drawn),
        rho |-> SpectralRadius(drawn),
        rng |-> Advance(g1, reservoir_size * reservoir_size)]

MatFinite(w) == \A i \in DOMAIN w : \A j \in DOMAIN w[i] : IsFinite(w[i][j])

(* ------------------------------------------------------ ReservoirDynamics *)
\* round(tanh(x) * Scale) changes value at x = atanh((k - 1/2) / Scale);
\* the thresholds are in units of 1/(Scale*WScale)
TanhSteps == <<50, 151, 255, 365, 485, 618, 775, 973, 1256, 1832>>

\* an activation that does not squash: the pre-activation, rounded
tanh_identity(p) == IF IsFinite(p) THEN RoundDiv(p, WScale) ELSE p

\* torch.tanh, rounded to the grid of the states
tanh(p) ==
    IF p = NaN THEN NaN
    ELSE IF p = PosInf THEN Scale
    ELSE IF p = NegInf THEN 0 - Scale
    ELSE Sign(p) * Cardinality({k \in DOMAIN TanhSteps : TanhSteps[k] <= Abs(p)})

RECURSIVE Dot(_, _, _)
\* sum over j <= n of a[j] * b[j]
Dot(a, b, n) ==
    IF n = 0 THEN 0
    ELSE Only({FAdd(d, m) : d \in {Dot(a, b, n - 1)}, m \in {FMul(a[n], b[n])}})

\* torch.zeros(self.reservoir_size)
ZeroState == [i \in 1..reservoir_size |-> 0]

\* the state a forward pass starts from; prev is what the previous pass left
InitialStateCarried(prev) == prev

InitialState(prev) == ZeroState

\* torch.tanh(self.Win @ u + self.W @ state), u = [x]
Step(win, w, state, x) ==
    [i \in 1..reservoir_size |->
        Only({tanh(p) : p \in {Only({FAdd(a, b) :
                                      a \in {Dot(win[i], <<x>>, 1)},
                                      b \in {Dot(w[i], state, reservoir_size)}})}})]

\* the buffer the result of torch.tanh is written to: a new tensor
ResultBufferInPlace(heap, cur) == cur

ResultBuffer(heap, cur) == Len(heap) + 1

\* one iteration of the loop of train on frame f: heap holds the tensor
\* buffers, f.state is the buffer `state` is bound to, f.states the buffers
\* appended (state.numpy() shares its tensor's memory)
LoopBody(win, w, f, x) ==
    Only({[heap |-> IF addr > Len(f.heap) THEN Append(f.heap, new)
                    ELSE [f.heap EXCEPT ![addr] = new],
           state |-> addr,
           states |-> Append(f.states, addr),
           computed |-> Append(f.computed, new)] :
          new \in {Step(win, w, f.heap[f.state], x)},
          addr \in {ResultBuffer(f.heap, f.state)}})

RECURSIVE Loop(_, _, _, _, _)
Loop(win, w, input, t, f) ==
    IF t > Len(input) THEN f
    ELSE Only({Loop(win, w, input, t + 1, g) :
                  g \in {LoopBody(win, w, f, input[t])}})

\* self.Win @ u with u of shape (1,) needs Win of shape (n, 1)
MatmulError(win) == \E i \in DOMAIN win : Len(win[i]) # 1

\* lines 51-59 of train: the frame after the loop, states as np.array(states)
ForwardPass(win, w, prev, input) ==
    LET f0 == [heap |-> <<InitialState(prev)>>, state |-> 1,
               states |-> <<>>, computed |-> <<>>]
    IN IF Len(input) > 0 /\ MatmulError(win)
       THEN [err |-> "RuntimeError", state |-> f0.heap[1], states |-> <<>>,
             computed |-> <<>>]
       ELSE Only({[err |-> "none", state |-> f.heap[f.state],
                   states |-> [t \in 1..Len(f.states) |-> f.heap[f.states[t]]],
                   computed |-> f.computed] :
                  f \in {Loop(win, w, input, 1, f0)}})

(* ----------------------------------------------------------- ReadoutModel *)
\* A target is [ndim, rows]: rows[t] holds the values of step t, one of them
\* when the array is 1-D (ndim = 1).
Width(y) == IF Len(y.rows) = 0 THEN 0 ELSE Len(y.rows[1])

Min(a, b) == IF a < b THEN a ELSE b

RECURSIVE SumTo(_, _)
SumTo(f, n) == IF n = 0 THEN 0 ELSE SumTo(f, n - 1) + f[n]

\* f[1] + ... + f[n]
Sum(f, n) == Only({SumTo(v, n) : v \in {f}})

\* Ridge(alpha=self.alpha) before any fit
Unfitted == [fitted |-> FALSE, xm |-> <<>>, det |-> 1, cols |-> <<>>, ndim |-> 1]

\* sklearn's check of the samples: the same number of rows in X and y
check_consistent_length_lenient(n, m) == m > 0

check_consistent_length(n, m) == n = m

\* what Ridge.fit(X, y) raises before it fits: X must be a non-empty 2-D
\* array of finite values with as many rows as y
fit_error(X, y) ==
    IF Len(X) = 0 THEN "ValueError"
    ELSE IF \E t \in DOMAIN X : \E i \in DOMAIN X[t] : ~IsFinite(X[t][i])
    THEN "ValueError"
    ELSE IF ~check_consistent_length(Len(X), Len(y.rows)) THEN "ValueError"
    ELSE "none"

\* the column means of the first T rows of X, and X centred on them
Means(X, T) ==
    [i \in 1..reservoir_size |-> RoundDiv(Sum([t \in 1..T |-> X[t][i]], T), T)]

Centred(X, xm, T) ==
    [t \in 1..T |-> [i \in 1..reservoir_size |-> X[t][i] - xm[i]]]

\* Xc'Xc + alpha I, as <<a11, a12, a22>>
Gram(xc, T) ==
    <<Sum([t \in 1..T |-> xc[t][1] * xc[t][1]], T) + alpha,
      Sum([t \in 1..T |-> xc[t][1] * xc[t][2]], T),
      Sum([t \in 1..T |-> xc[t][2] * xc[t][2]], T) + alpha>>

\* column c of y: its mean, and the numerators of its two coefficients
ColumnFit(xc, A, y, c, T) ==
    Only({[ym |-> ym,
           num |-> Only({<<A[3] * b[1] - A[2] * b[2], A[1] * b[2] - A[2] * b[1]>> :
                  b \in {<<Sum([t \in 1..T |-> xc[t][1] * (y.rows[t][c] - ym)], T),
                           Sum([t \in 1..T |-> xc[t][2] * (y.rows[t][c] - ym)], T)>>}})] :
          ym \in {RoundDiv(Sum([t \in 1..T |-> y.rows[t][c]], T), T)}})

\* the solution for the centred rows xc, xm being the means taken off
RidgeSolve(xc, xm, y, T) ==
    Only({[fitted |-> TRUE, xm |-> xm, det |-> A[1] * A[3] - A[2] * A[2],
           cols |-> [c \in 1..Width(y) |-> ColumnFit(xc, A, y, c, T)],
           ndim |-> y.ndim] :
          A \in {Gram(xc, T)}})

\* Ridge.fit with an intercept, two features: the centred normal equations
\* (Xc'Xc + alpha I) beta = Xc'yc solved by Cramer's rule, beta = num / det
ridge_fit(X, y) ==
    LET T == Min(Len(X), Len(y.rows))
    IN Only({Only({RidgeSolve(xc, xm, y, T) : xc \in {Centred(X, xm, T)}}) :
             xm \in {Means(X, T)}})

\* the readout a call of fit leaves, old being the one held before it
fit_keep_first(old, X, y) == IF old.fitted THEN old ELSE ridge_fit(X, y)

fit(old, X, y) == ridge_fit(X, y)

\* Ridge.predict(X): intercept + X beta, an array shaped like the fitted y
predict(ro, X) ==
    [ndim |-> ro.ndim,
     rows |-> [t \in 1..Len(X) |->
        [c \in 1..Len(ro.cols) |->
            ro.cols[c].ym
            + RoundDiv(ro.cols[c].num[1] * (X[t][1] - ro.xm[1])
                       + ro.cols[c].num[2] * (X[t][2] - ro.xm[2]), ro.det)]]]

\* the mean over steps and columns of the squared differences
MeanSquare(y, p) ==
    LET T == Len(y.rows)
        k == Width(y)
        sq(t) == Sum([c \in 1..k |-> (y.rows[t][c] - p.rows[t][c])
                                      * (y.rows[t][c] - p.rows[t][c])], k)
    IN Sum([t \in 1..T |-> sq(t)], T) \div (T * k)

\* sklearn's mean_squared_error(y, p), in units of 1/Scale^2
mean_squared_error(y, p) == Only({MeanSquare(yv, pv) : yv \in {y}, pv \in {p}})

(* ------------------------------------------------- EchoStateNetwork.train *)
NoPredictions == [ndim |-> 0, rows |-> <<>>]

\* lines 60-62 of train after a forward pass that ended as fwd
FitPredict(fwd, ro, target) ==
    IF fwd.err # "none" \/ fit_error(fwd.states, target) # "none"
    THEN [err |-> IF fwd.err # "none" THEN fwd.err
                  ELSE fit_error(fwd.states, target),
          readout |-> ro, predictions |-> NoPredictions, state |-> fwd.state,
          states |-> fwd.states, computed |-> fwd.computed]
    ELSE Only({[err |-> "none", readout |-> ro1,
                predictions |-> predict(ro1, fwd.states), state |-> fwd.state,
                states |-> fwd.states, computed |-> fwd.computed] :
               ro1 \in {fit(ro, fwd.states, target)}})

\* train(train_data, target_data) on weights win, w and readout ro: what it
\* raises, the readout it leaves, what it returns and its frame
train(win, w, ro, prev, input, target) ==
    Only({FitPredict(fwd, ro, target) : fwd \in {ForwardPass(win, w, prev, input)}})

(* ------------------------------------------------------------------ data *)
Vec(v) == [ndim |-> 1, rows |-> [t \in 1..Len(v) |-> <<v[t]>>]]

Mat(m) == [ndim |-> 2, rows |-> m]

SeqA == <<4, 6, 8, 10, 12, 14>>
SeqB == <<5, 9, 12, 4, 30>>
TargetA == Vec(<<12, 5, 9, 13, 4, 8>>)
TargetA2 == Vec(<<6, 11, 3, 9, 14, 5>>)
TargetB == Vec(<<7, 11, 4, 12, 6>>)
TargetB1 == Mat(<< <<7>>, <<11>>, <<4>>, <<12>>, <<6>> >>)
TargetB2 == Mat(<< <<7, 3>>, <<11, 8>>, <<4, 12>>, <<12, 5>>, <<6, 9>> >>)

\* the (train_data, target_data) pairs train is called with: matching
\* lengths, more inputs than targets and fewer, a 2-D target of one column
\* and of two, empty sequences
TrainCalls ==
    { <<SeqA, TargetA>>, <<SeqB, TargetB>>, <<SeqA, TargetB>>, <<SeqB, TargetA>>,
      <<SeqB, TargetB1>>, <<SeqB, TargetB2>>, <<<<>>, Vec(<<>>)>>,
      <<SeqB, Vec(<<>>)>> }

Window(a, b, c, d) ==
    [train_data |-> a, target_data |-> b, test_data |-> c, test_target |-> d]

\* the four data windows train_esn is called with
Experiments ==
    { Window(SeqA, TargetA, SeqB, TargetB),
      Window(SeqA, TargetA2, SeqB, TargetB),
      Window(SeqB, TargetB, SeqA, TargetA),
      Window(SeqA, TargetA, SeqB, TargetB2),
      Window(SeqA, TargetA, SeqB, TargetA),
      Window(SeqA, TargetB, SeqB, TargetB) }

NoData == Window(<<>>, Vec(<<>>), <<>>, Vec(<<>>))

(* ----------------------------------------------------------------- state *)
VARIABLES
    input_dim, output_dim,   \* the configured dimensions
    rng,                     \* torch's global generator
    Win, W,                  \* the weights held
    rhoW, init_err,          \* of the latest initialize_weights: the spectral
                             \* radius of the matrix drawn, what it raised
    readout,                 \* self.readout
    call,                    \* the latest call of train: its arguments, and
                             \* the weights, readout and state it found
    state, states,           \* its locals after the loop
    computed,                \* the state computed at each step of its loop
    predictions, err,        \* what it returned, what it (or the computation
                             \* of its error in train_esn) raised
    pc, calls,               \* where the program is; calls made at top level
    data, num_trials, trial, \* train_esn's arguments and loop variable
    results, test_results,   \* its two lists
    log                      \* the steps train_esn has taken, in order

vars == <<input_dim, output_dim, rng, Win, W, rhoW, init_err, readout, call,
          state, states, computed, predictions, err, pc, calls, data,
          num_trials, trial, results, test_results, log>>

config == <<input_dim, output_dim>>
weights == <<rng, Win, W, rhoW, init_err>>
frame == <<call, state, states, computed, predictions, err>>
runner == <<data, num_trials, trial, results, test_results, log>>

NoCall == [made |-> FALSE, train_data |-> <<>>, target_data |-> Vec(<<>>),
           Win |-> <<>>, W |-> <<>>, prev |-> ZeroState, held |-> Unfitted]

\* self.initialize_weights() on generator g, the effect on the network;
\* nothing in it raises
Initialized(g) ==
    \E iw \in {initialize_weights(g, input_dim)} :
       /\ rng' = iw.rng
       /\ Win' = iw.Win
       /\ W' = iw.W
       /\ rhoW' = iw.rho
       /\ init_err' = "none"

\* after esn = EchoStateNetwork(input_dim, neurons, output_dim), the
\* generator being in any state before it
Init ==
    /\ input_dim \in {1, 2}
    /\ output_dim \in {1, 2}
    /\ \E s \in 0..MaxSeed :
          \E iw \in {initialize_weights(SeededGenerator(s), input_dim)} :
             /\ rng = iw.rng
             /\ Win = iw.Win
             /\ W = iw.W
             /\ rhoW = iw.rho
    /\ init_err = "none"
    /\ readout = Unfitted
    /\ call = NoCall
    /\ state = ZeroState
    /\ states = <<>>
    /\ computed = <<>>
    /\ predictions = NoPredictions
    /\ err = "none"
    /\ pc = "idle"
    /\ calls = 0
    /\ data = NoData
    /\ num_trials = 0
    /\ trial = 0
    /\ results = <<>>
    /\ test_results = <<>>
    /\ log = <<>>

\* the effect of a call of train that ended as r on the network, and the
\* frame kept
Trained(r, input, target) ==
    /\ readout' = r.readout
    /\ call' = [made |-> TRUE, train_data |-> input, target_data |-> target,
                Win |-> Win, W |-> W, prev |-> state, held |-> readout]
    /\ state' = r.state
    /\ states' = r.states
    /\ computed' = r.computed
    /\ predictions' = r.predictions

\* esn.initialize_weights() called by the program
CallInitializeWeights ==
    /\ pc = "idle" /\ calls < MaxCalls
    /\ Initialized(rng)
    /\ calls' = calls + 1
    /\ UNCHANGED <<config, readout, frame, pc, runner>>

\* esn.train(train_data, target_data) called by the program
CallTrain ==
    /\ pc = "idle" /\ calls < MaxCalls
    /\ \E c \in TrainCalls :
          \E r \in {train(Win, W, readout, state, c[1], c[2])} :
             /\ Trained(r, c[1], c[2])
             /\ err' = r.err
    /\ calls' = calls + 1
    /\ UNCHANGED <<config, weights, pc, runner>>

\* train_esn(esn, ...) called: lines 64-67, results = [], test_results = []
CallTrainEsn ==
    /\ pc = "idle" /\ calls < MaxCalls
    /\ \E d \in Experiments, n \in 0..MaxTrials :
          /\ data' = d
          /\ num_trials' = n
          /\ pc' = IF n > 0 THEN "seed" ELSE "return"
    /\ trial' = 0
    /\ results' = <<>>
    /\ test_results' = <<>>
    /\ log' = <<>>
    /\ calls' = calls + 1
    /\ UNCHANGED <<config, weights, readout, frame>>

\* lines 68-69: torch.manual_seed(trial); np.random.seed(trial) seeds a
\* generator nothing here draws from
Seed ==
    /\ pc = "seed"
    /\ rng' = manual_seed(rng, trial)
    /\ pc' = "init"
    /\ log' = Append(log, <<"seed", trial>>)
    /\ UNCHANGED <<config, Win, W, rhoW, init_err, readout, frame, calls,
                   data, num_trials, trial, results, test_results>>

\* line 70: model.initialize_weights()
Reinitialize ==
    /\ pc = "init"
    /\ Initialized(rng)
    /\ pc' = "train"
    /\ log' = Append(log, <<"init", trial>>)
    /\ UNCHANGED <<config, readout, frame, calls, data, num_trials, trial,
                   results, test_results>>

\* what mean_squared_error raises: arrays of different lengths
mse_error(y, p) == IF Len(y.rows) # Len(p.rows) THEN "ValueError" ELSE "none"

\* results.append(mse)
RecordFirst(list, mse) == <<mse>> \o list

Record(list, mse) == Append(list, mse)

\* lines 72-74: the pass on the training windows; an exception leaves
\* train_esn and reaches its caller, the lists are lost
TrainPass ==
    /\ pc = "train"
    /\ \E r \in {train(Win, W, readout, state, data.train_data, data.target_data)} :
          /\ Trained(r, data.train_data, data.target_data)
          /\ err' = IF r.err # "none" THEN r.err
                    ELSE mse_error(data.target_data, r.predictions)
          /\ IF err' = "none"
             THEN /\ results' = Record(results,
                        mean_squared_error(data.target_data, r.predictions))
                  /\ pc' = "test"
                  /\ log' = Append(log, <<"train", trial>>)
             ELSE /\ results' = results
                  /\ pc' = "idle"
                  /\ log' = log
    /\ UNCHANGED <<config, weights, calls, data, num_trials, trial,
                   test_results>>

\* lines 77-81 and the loop's step: the pass on the test windows
TestPass ==
    /\ pc = "test"
    /\ \E r \in {train(Win, W, readout, state, data.test_data, data.test_target)} :
          /\ Trained(r, data.test_data, data.test_target)
          /\ err' = IF r.err # "none" THEN r.err
                    ELSE mse_error(data.test_target, r.predictions)
          /\ IF err' = "none"
             THEN /\ test_results' = Record(test_results,
                        mean_squared_error(data.test_target, r.predictions))
                  /\ trial' = trial + 1
                  /\ pc' = IF trial + 1 < num_trials THEN "seed" ELSE "return"
                  /\ log' = Append(log, <<"test", trial>>)
             ELSE /\ test_results' = test_results
                  /\ trial' = trial
                  /\ pc' = "idle"
                  /\ log' = log
    /\ UNCHANGED <<config, weights, calls, data, num_trials, results>>

\* line 82: return results, test_results
Return ==
    /\ pc = "return"
    /\ pc' = "idle"
    /\ UNCHANGED <<config, weights, readout, frame, calls, runner>>

Next ==
    \/ CallInitializeWeights
    \/ CallTrain
    \/ CallTrainEsn
    \/ Seed
    \/ Reinitialize
    \/ TrainPass
    \/ TestPass
    \/ Return

Spec == Init /\ [][Next]_vars

(* ------------------------------------------------------------ references *)
\* The program's computations as functions of their inputs alone, apart
\* from the object's frame: the state recurrence from zeros, fit then
\* predict on one trajectory, and a trial of train_esn by its index.
RECURSIVE Trajectory(_, _, _, _)
\* the first t states of run(Win, W, input)
Trajectory(win, w, input, t) ==
    IF t = 0 THEN <<>>
    ELSE Only({Append(tr, Step(win, w, IF t = 1 THEN ZeroState ELSE tr[t - 1],
                               input[t])) :
               tr \in {Trajectory(win, w, input, t - 1)}})

\* a readout fitted from scratch on the trajectory of input, and its
\* predictions on that trajectory
FreshPass(win, w, input, target) ==
    Only({Only({[readout |-> ro, predictions |-> predict(ro, X)] :
                ro \in {ridge_fit(X, target)}}) :
          X \in {Trajectory(win, w, input, Len(input))}})

\* the weights of trial i: drawn from the generator seeded with i
TrialWeights(i) == initialize_weights(SeededGenerator(i), input_dim)

TrialTrainMse(i) ==
    Only({mean_squared_error(data.target_data,
              FreshPass(iw.Win, iw.W, data.train_data, data.target_data).predictions) :
          iw \in {TrialWeights(i)}})

TrialTestMse(i) ==
    Only({mean_squared_error(data.test_target,
              FreshPass(iw.Win, iw.W, data.test_data, data.test_target).predictions) :
          iw \in {TrialWeights(i)}})

StepNames == <<"seed", "init", "train", "test">>

\* the k-th step of train_esn
ExpectedStep(k) == <<StepNames[((k - 1) % 4) + 1], (k - 1) \div 4>>

InTrainEsn == pc \in {"seed", "init", "train", "test", "return"}

\* the dimensionality of a target: values per step
OutputWidth(y) == IF y.ndim = 1 THEN 1 ELSE Width(y)

\* how far the spectral radius may be from the configured one: one percent
RhoTol == (spectral_radius * RhoPrec) \div 100

(* ---------------------------------------------------------------- claims *)
\* C1: in every reachable state the spectral radius of the held W equals
\* the configured spectral_radius (within the tolerance of the arithmetic).
SpectralRadiusInvariant ==
    /\ MatFinite(W)
    /\ Abs(SpectralRadius(W) - spectral_radius * RhoPrec) <= RhoTol

\* What does hold: the invariant, whenever the matrix drawn was regular.
SpectralRadiusWhenRegular == rhoW # 0 => SpectralRadiusInvariant

\* C2: when the matrix drawn has spectral radius 0, initialize_weights
\* fails with DegenerateMatrix, and no W rescaled by a division by zero is
\* held.
DegenerateMatrixRaised ==
    rhoW = 0 => (init_err = "DegenerateMatrix" /\ MatFinite(W))

\* C3: every pass of train starts from the zero state: its first state is
\* the step from the zero vector, whatever the previous pass left.
PassStartsFromZero ==
    (call.made /\ Len(computed) > 0)
        => computed[1] = Step(call.Win, call.W, ZeroState, call.train_data[1])

PassAfterNonZeroState ==
    /\ call.made /\ Len(computed) > 0
    /\ call.prev # ZeroState
    /\ MatFinite(call.W)
    /\ \E i \in 1..reservoir_size, j \in 1..reservoir_size :
          call.W[i][j] # 0 /\ call.prev[j] # 0

\* C4 as stated: every component of every state of a trajectory is
\* strictly inside (-1, 1) (for finite weights and inputs).
StatesStrictlyInside ==
    (call.made /\ MatFinite(call.W))
        => \A t \in DOMAIN computed : \A i \in DOMAIN computed[t] :
              computed[t][i] > 0 - Scale /\ computed[t][i] < Scale

\* C4 as amended: for finite weights and inputs every component of every
\* state of a trajectory is inside the closed interval [-1, 1].
StatesInsideClosed ==
    (call.made /\ MatFinite(call.W))
        => \A t \in DOMAIN computed : \A i \in DOMAIN computed[t] :
              computed[t][i] >= 0 - Scale /\ computed[t][i] <= Scale

StateSaturated ==
    /\ call.made /\ MatFinite(call.W)
    /\ \E t \in DOMAIN computed : \E i \in DOMAIN computed[t] :
          Abs(computed[t][i]) = Scale

\* C5: the train MSE and test MSE recorded for trial i are those of the
\* trial computed from i, the hyperparameters and the data windows alone.
TrialResultsBySeed ==
    /\ \A k \in DOMAIN results : results[k] = TrialTrainMse(k - 1)
    /\ \A k \in DOMAIN test_results : test_results[k] = TrialTestMse(k - 1)

TrialsRecordedAfterOtherCalls ==
    /\ pc = "return" /\ calls > 1
    /\ Len(test_results) > 1
    /\ results[1] # results[2]

\* C6: a call of train whose input and target differ in length raises,
\* returns no predictions and leaves the readout as it was.
LengthMismatchRaises ==
    (call.made /\ Len(call.train_data) # Len(call.target_data.rows))
        => /\ err \in {"ValueError", "RuntimeError"}
           /\ predictions = NoPredictions
           /\ readout = call.held

LengthMismatchAfterForwardPass ==
    /\ call.made /\ Len(call.train_data) # Len(call.target_data.rows)
    /\ Len(states) > 0 /\ Len(call.target_data.rows) > 0
    /\ MatFinite(call.W)
    /\ call.held.fitted
    /\ err = "ValueError"

\* C7: a call of train whose data differ in dimensionality from the
\* configured input_dim (the inputs are scalars) or output_dim raises.
DimensionMismatchRaises ==
    (call.made /\ (input_dim # 1 \/ OutputWidth(call.target_data) # output_dim))
        => err # "none"

\* C8: every call of train that returns holds the readout fitted from
\* scratch on its own trajectory and targets and returns its predictions on
\* that trajectory; after a test pass the test MSE is the one of the test
\* windows alone.
RefitOnEveryCall ==
    /\ (call.made /\ err = "none")
          => \E p \in {FreshPass(call.Win, call.W, call.train_data, call.target_data)} :
                predictions = p.predictions /\ readout = p.readout
    /\ (InTrainEsn /\ Len(log) > 0 /\ log[Len(log)][1] = "test")
          => /\ call.train_data = data.test_data
             /\ call.target_data = data.test_target
             /\ test_results[Len(test_results)]
                   = mean_squared_error(data.test_target,
                        FreshPass(Win, W, data.test_data, data.test_target).predictions)

TestPassAfterTrainPass ==
    /\ pc = "return" /\ num_trials > 0
    /\ call.held.fitted
    /\ data.train_data # data.test_data
    /\ readout # call.held

\* C9: train_esn takes the steps seed, initialize_weights, train pass, test
\* pass for trial 0, 1, ... in this order, both passes of a trial run on
\* the weights its initialize_weights left, and on return both lists have
\* num_trials entries, entry i being trial i's.
TrialsInOrder ==
    /\ Len(log) <= 4 * num_trials
    /\ \A k \in DOMAIN log : log[k] = ExpectedStep(k)
    /\ (InTrainEsn /\ Len(log) > 0 /\ log[Len(log)][1] \in {"train", "test"})
          => \E iw \in {TrialWeights(log[Len(log)][2])} :
                /\ call.Win = iw.Win /\ call.W = iw.W
                /\ Win = iw.Win /\ W = iw.W
    /\ pc = "return"
          => /\ Len(log) = 4 * num_trials
             /\ Len(results) = num_trials
             /\ Len(test_results) = num_trials
             /\ \A k \in 1..num_trials :
                   /\ results[k] = TrialTrainMse(k - 1)
                   /\ test_results[k] = TrialTestMse(k - 1)

SeveralTrialsReturned ==
    /\ pc = "return" /\ num_trials > 1
    /\ Len(log) = 4 * num_trials
    /\ results[1] # results[2]

\* C10: after the loop the trajectory has one entry per input step, in
\* input order, and entry t is still the state computed at step t, itself
\* the step from entry t - 1.
SnapshotsKept ==
    (call.made /\ err # "RuntimeError")
        => /\ Len(states) = Len(call.train_data)
           /\ states = computed
           /\ \A t \in 2..Len(computed) :
                 computed[t] = Step(call.Win, call.W, computed[t - 1],
                                    call.train_data[t])

TrajectoryOfDistinctStates ==
    /\ call.made /\ Len(states) > 1
    /\ MatFinite(call.W)
    /\ states[1] # states[Len(states)]
====
